---- MODULE Spec2Model ----
(***************************************************************************)
(* Model of dvc/repo/reproduce.py: the entry point reproduce, the          *)
(* per-target _reproduce, the traversal loop _reproduce_stages and the     *)
(* per-node _reproduce_stage.                                              *)
(*                                                                         *)
(* A graph is an adjacency function: G[n] is the ordered list of the nodes *)
(* n has an edge to (networkx keeps successors in insertion order).  As in *)
(* the docstring of _reproduce_stages an edge n -> d says that stage n     *)
(* depends on stage d.  Nodes are numbered in the order the graph holds    *)
(* them (the iteration order of G.nodes()).                                *)
(*                                                                         *)
(* Stage.reproduce, Stage.dump, Stage.load and the graph builder are       *)
(* external: their outcome is a nondeterministic input of the step that    *)
(* calls them.  The interactive option is passed through to                *)
(* Stage.reproduce untouched and is not part of the state.                 *)
(***************************************************************************)
EXTENDS Integers, Sequences, FiniteSets, TLC

MaxNodes == 3

\* How many edges a stage graph has at most.
MaxEdges == 3

\* How many stages of a run are out of date at most.
MaxChanged == 2

Nodes == 1..MaxNodes

None == [kind |-> "none"]

File(n) == [kind |-> "file", node |-> n]

Dir(S) == [kind |-> "dir", nodes |-> S]

Range(s) == {s[i] : i \in DOMAIN s}

VARIABLES
    G,          \* the repository's stage graph, self.graph()[1]
    locked,     \* stage.locked of every stage
    args,       \* the arguments of the call of reproduce
    pc,         \* position of the run
    targets,    \* reproduce: the list of starting points
    ti,         \* reproduce: index of the starting point of the for loop
    pipeline,   \* _reproduce_stages: the node sequence of the traversal
    pi,         \* _reproduce_stages: index of the node n of the for loop
    kwForce,    \* kwargs["force"] of the running traversal
    result,     \* _reproduce_stages: result
    ret,        \* reproduce: ret
    stateHeld,  \* self.state is entered
    acquired,   \* how many times self.state was entered
    err,        \* the exception that is propagating, or None
    calls,      \* the stage.reproduce calls of the running traversal
    dumped,     \* the stage.dump calls of the run
    warnings,   \* the locked-stage warnings of the run
    loads,      \* how many times Stage.load was called
    graphReads, \* how many times the graph or the pipelines were asked for
    travs,      \* the traversals of the run that were started and are over
    returned    \* the value reproduce returned, or None

vars == <<G, locked, args, pc, targets, ti, pipeline, pi, kwForce, result, ret,
          stateHeld, acquired, err, calls, dumped, warnings, loads,
          graphReads, travs, returned>>

(***************************************************************************)
(* Graphs: networkx.DiGraph as the code uses it.                           *)
(***************************************************************************)

\* The lists of distinct nodes: the adjacency lists a DiGraph can hold.
NodeLists ==
    {s \in UNION {[1..k -> Nodes] : k \in 0..(MaxNodes - 1)} :
        \A i, j \in DOMAIN s : i # j => s[i] # s[j]}

\* The depth-first search of networkx.dfs_labeled_edges: st.pre takes a node
\* when its 'forward' edge is yielded, st.post when its 'reverse' edge is,
\* st.visited is the visited set.
RECURSIVE DfsVisit(_, _, _)
RECURSIVE DfsChildren(_, _, _, _)

DfsChildren(adj, children, i, st) ==
    IF i > Len(children)
    THEN st
    ELSE DfsChildren(adj, children, i + 1,
                     IF children[i] \in st.visited
                     THEN st
                     ELSE DfsVisit(adj, children[i], st))

DfsVisit(adj, v, st) ==
    LET entered == [pre |-> Append(st.pre, v),
                    post |-> st.post,
                    visited |-> st.visited \cup {v}]
        left == DfsChildren(adj, adj[v], 1, entered)
    IN  [left EXCEPT !.post = Append(@, v)]

DfsStart == [pre |-> <<>>, post |-> <<>>, visited |-> {}]

\* nx.dfs_postorder_nodes(G, source)
dfs_postorder_nodes(adj, source) == DfsVisit(adj, source, DfsStart).post

\* nx.dfs_preorder_nodes(G, source)
dfs_preorder_nodes(adj, source) == DfsVisit(adj, source, DfsStart).pre

\* The nodes of S in the order the graph holds them.
RECURSIVE InOrder(_, _)
InOrder(S, k) ==
    IF k > MaxNodes THEN <<>>
    ELSE (IF k \in S THEN <<k>> ELSE <<>>) \o InOrder(S, k + 1)

\* G.copy().reverse(copy=False): the copy is filled node by node, edge by
\* edge, so the reversed view lists the predecessors of v in node order.
Reverse(adj) ==
    [v \in DOMAIN adj |-> InOrder({u \in DOMAIN adj : v \in Range(adj[u])}, 1)]

\* The nodes a path of k edges or fewer leads to from the nodes of S.
RECURSIVE Closure(_, _, _)
Closure(adj, S, k) ==
    LET T == S \cup UNION {Range(adj[u]) : u \in S}
    IN  IF k = 0 \/ T = S THEN S ELSE Closure(adj, T, k - 1)

\* The nodes v depends on, directly or transitively.
Descendants(adj, v) == Closure(adj, Range(adj[v]), MaxNodes)

\* The nodes that depend on v, directly or transitively.
Ancestors(adj, v) == {u \in DOMAIN adj : v \in Descendants(adj, u)}

Acyclic(adj) == \A v \in DOMAIN adj : v \notin Descendants(adj, v)

\* The stage graphs: the graph builder hands over acyclic graphs only.
RECURSIVE EdgeCount(_, _)
EdgeCount(adj, k) ==
    IF k > MaxNodes THEN 0 ELSE Len(adj[k]) + EdgeCount(adj, k + 1)

Graphs ==
    {adj \in [Nodes -> NodeLists] : EdgeCount(adj, 1) <= MaxEdges /\ Acyclic(adj)}

\* self.graph(from_directory=target)[1]: the graph of the stages of the
\* directory, with the edges between them.
DirGraph(adj, S) ==
    [v \in S |-> SelectSeq(adj[v], LAMBDA d : d \in S)]

\* nx.dfs_postorder_nodes(G) without a source: a search from every node not
\* yet visited, in node order.
dfs_postorder_all(adj) ==
    DfsChildren(adj, InOrder(DOMAIN adj, 1), 1, DfsStart).post

\* The weakly-connected component of v.
RECURSIVE Component(_, _, _)
Component(adj, S, k) ==
    IF k = 0 THEN S
    ELSE Component(adj,
                   S \cup UNION {Range(adj[u]) : u \in S}
                     \cup {u \in DOMAIN adj : Range(adj[u]) \cap S # {}},
                   k - 1)

\* self._get_pipeline(node): the nodes of the pipeline of node.
get_pipeline(adj, v) == Component(adj, {v}, MaxNodes)

\* self.pipelines(): the pipelines of the graph, in the order of their
\* first nodes.
pipelines(adj) ==
    LET firsts == InOrder({v \in DOMAIN adj :
                            \A u \in get_pipeline(adj, v) : v <= u}, 1)
    IN  [i \in DOMAIN firsts |-> get_pipeline(adj, firsts[i])]

\* G.in_degree(node)
in_degree(adj, v) == Cardinality({u \in DOMAIN adj : v \in Range(adj[u])})

\* The nodes of the pipelines that have an edge to no node.
RECURSIVE PipelineTargetsLeaves(_, _, _)
PipelineTargetsLeaves(adj, ps, i) ==
    IF i > Len(ps) THEN <<>>
    ELSE LET leaves == InOrder({v \in ps[i] : adj[v] = <<>>}, 1)
         IN  [k \in DOMAIN leaves |-> File(leaves[k])]
             \o PipelineTargetsLeaves(adj, ps, i + 1)

\* Lines 70-73: the nodes of the pipelines that no node has an edge to.
RECURSIVE PipelineTargets(_, _, _)
PipelineTargets(adj, ps, i) ==
    IF i > Len(ps) THEN <<>>
    ELSE LET roots == InOrder({v \in ps[i] : in_degree(adj, v) = 0}, 1)
         IN  [k \in DOMAIN roots |-> File(roots[k])]
             \o PipelineTargets(adj, ps, i + 1)

(***************************************************************************)
(* Exceptions.                                                             *)
(***************************************************************************)

NoErr == [type |-> "none"]

\* Line 45
ValueError == [type |-> "ValueError"]

\* os.path.isdir(None), line 56
TypeError == [type |-> "TypeError"]

\* Stage.load of a target that is no stage file.
NotFound == [type |-> "NotFound"]

\* What stage.reproduce raises.
ReproduceFailed == [type |-> "ReproduceFailed"]

\* What stage.dump raises.
DumpFailed == [type |-> "DumpFailed"]

\* Line 170
ReproductionError(path, ex) ==
    [type |-> "ReproductionError", path |-> path, cause |-> ex]

\* The error names the starting node of the traversal.
RaisedForStart(n, ex) ==
    IF args.single_item THEN ex ELSE ReproductionError(targets[ti].node, ex)

\* What an exception raised by _reproduce_stage for node n becomes on its
\* way out of _reproduce: wrapped by the loop of _reproduce_stages (lines
\* 169-170), as it is out of the single_item branch (line 96).
Raised(n, ex) ==
    IF args.single_item THEN ex ELSE ReproductionError(n, ex)

\* The check lets a call for a pipeline through.
NoTargetNoMode == args.target = None /\ ~args.all_pipelines /\ ~args.pipeline

\* Line 44: neither a target nor all_pipelines.
NoTarget == args.target = None /\ ~args.all_pipelines

\* self.state is released at the end of the block only.
HeldAfterException(ex) == ex # NoErr

\* Line 78: self.state is released when the with block is left, by an
\* exception ex too.
HeldAfterExit(ex) == FALSE

\* The node that raised is tried again.
OnRaiseRetry(n, ex) ==
    /\ err' = Raised(n, ex)
    /\ pc' = pc
    /\ ti' = ti
    /\ UNCHANGED stateHeld

\* The loop over the starting points goes on after the exception.
OnRaiseNextTarget(n, ex) ==
    /\ err' = Raised(n, ex)
    /\ pc' = "loop"
    /\ ti' = ti + 1
    /\ UNCHANGED stateHeld

\* Lines 169-170 and 78-81: an exception raised for node n leaves the loop
\* over the nodes, the loop over the starting points and the with block,
\* and goes on to the caller of reproduce.
OnRaise(n, ex) ==
    /\ err' = Raised(n, ex)
    /\ pc' = "failed"
    /\ ti' = ti
    /\ stateHeld' = HeldAfterExit(Raised(n, ex))

\* The stage is dumped whatever dry is.
ShouldDumpAlways == TRUE

\* Line 26: the stage is dumped unless dry is set.
ShouldDump == ~args.dry

\* The cascade does not ask for ignore_build_cache.
CascadeAlways(force, changed) ==
    IF changed /\ ~args.single_item THEN TRUE ELSE force

\* The force option is assigned whether the build cache is ignored.
CascadeReset(force, changed) ==
    changed /\ args.ignore_build_cache /\ ~args.single_item

\* Line 160-166: the force option after _reproduce_stage returned ret.
Cascade(force, changed) ==
    IF changed /\ args.ignore_build_cache /\ ~args.single_item
    THEN TRUE
    ELSE force

\* A walk that does not remember the nodes it has been to: every node once
\* for every path that leads to it.
RECURSIVE Walk(_, _, _)
RECURSIVE WalkChildren(_, _, _, _)

WalkChildren(adj, children, i, pre) ==
    IF i > Len(children) THEN <<>>
    ELSE Walk(adj, children[i], pre) \o WalkChildren(adj, children, i + 1, pre)

Walk(adj, v, pre) ==
    IF pre
    THEN <<v>> \o WalkChildren(adj, adj[v], 1, pre)
    ELSE WalkChildren(adj, adj[v], 1, pre) \o <<v>>

\* The traversal has no visited set.
PipelineRevisit(adj, node) ==
    IF args.single_item THEN <<node>>
    ELSE IF args.downstream
         THEN Walk(Reverse(adj), node, TRUE)
         ELSE Walk(adj, node, FALSE)

\* The test of single_item is the wrong way round.
PipelineInverted(adj, node) ==
    IF ~args.single_item THEN <<node>>
    ELSE IF args.downstream
         THEN dfs_preorder_nodes(Reverse(adj), node)
         ELSE dfs_postorder_nodes(adj, node)

\* The forward traversal yields a node when it is entered.
PipelinePreorder(adj, node) ==
    IF args.single_item THEN <<node>>
    ELSE IF args.downstream
         THEN dfs_preorder_nodes(Reverse(adj), node)
         ELSE dfs_preorder_nodes(adj, node)

\* Lines 143-153, 95-96: the node sequence of the traversal from node.
Pipeline(adj, node) ==
    IF args.single_item THEN <<node>>
    ELSE IF args.downstream
         THEN dfs_preorder_nodes(Reverse(adj), node)
         ELSE dfs_postorder_nodes(adj, node)

\* The traversal starts with force set when ignore_build_cache is.
InitialForceCache(prev) == args.ignore_build_cache

\* The traversal starts with the force the traversal before it ended with.
InitialForceLeak(prev) == IF ti > 1 THEN prev ELSE args.force

\* Lines 80, 96-98 and 158: every call of _reproduce passes the kwargs of
\* reproduce on as a new dictionary, so the traversal starts with the force
\* option of the caller whatever prev, the value the traversal before it
\* left in its own kwargs, is.
InitialForce(prev) == args.force

\* The reversal is done on the graph itself.
GraphReversedInPlace(adj) ==
    IF args.downstream /\ ~args.single_item THEN Reverse(adj) ELSE adj

\* Lines 151-153: the graph adj after the node sequence was derived from
\* it; the reversed view is a view of a copy.
GraphAfterPipeline(adj) == adj

\* ret is replaced by the result of the traversal.
ExtendReplace(r, stages) == stages

\* Line 81 and line 168: ret.extend(stages), result += ret
Extend(r, stages) == r \o stages

\* The stages of the directory in the order the graph holds them.
DirTargetsInOrder(adj, S) ==
    LET order == InOrder(S, 1)
    IN  [i \in DOMAIN order |-> File(order[i])]

\* Lines 57-61: the starting points of a recursive call for the directory
\* of the stages S.
DirTargets(adj, S) ==
    LET order == dfs_postorder_all(DirGraph(adj, S))
    IN  [i \in DOMAIN order |-> File(order[i])]

\* A locked stage is warned about and left alone.
ReproduceCalledUnlessLocked(n) == ~locked[n]

\* Lines 16-22: stage.reproduce is called after the branch of the warning
\* as it is without it.
ReproduceCalled(n) == TRUE

(***************************************************************************)
(* The calls of reproduce.                                                 *)
(***************************************************************************)

Flags == {"single_item", "downstream", "ignore_build_cache", "force", "dry"}

Call(target, modes, flags) ==
    [target |-> target,
     recursive |-> "recursive" \in modes,
     pipeline |-> "pipeline" \in modes,
     all_pipelines |-> "all_pipelines" \in modes,
     single_item |-> "single_item" \in flags,
     downstream |-> "downstream" \in flags,
     ignore_build_cache |-> "ignore_build_cache" \in flags,
     force |-> "force" \in flags,
     dry |-> "dry" \in flags]

\* The calls with one stage file as the target, no mode and two options at
\* most.
PlainCalls ==
    {Call(File(n), {}, fs) : n \in Nodes,
                             fs \in {x \in SUBSET Flags : Cardinality(x) <= 2}}

Modes == {"recursive", "pipeline", "all_pipelines"}

\* The directories: the first stages of the graph, any number of them.
DirSets == {1..k : k \in 0..MaxNodes}

\* The calls with modes and no option: any modes without a target, every
\* mode with a stage file, the recursive calls with a directory, and the
\* calls with the directory of all stages that is no stage file.
ModeCalls ==
    {Call(None, ms, {}) : ms \in SUBSET Modes}
    \cup {Call(File(n), ms, {}) :
            n \in Nodes,
            ms \in {{"recursive"}, {"pipeline"}, {"pipeline", "all_pipelines"}}}
    \cup {Call(Dir(S), {"recursive"}, {}) : S \in DirSets}
    \cup {Call(Dir(Nodes), ms, {}) : ms \in {{}, {"pipeline"}, Modes}}

\* The calls of one mode with one of the options that tell the traversals
\* of a run apart.
ModeFlagCalls ==
    {Call(None, {"all_pipelines"}, {f}) :
        f \in {"single_item", "ignore_build_cache"}}
    \cup {Call(File(n), {"pipeline"}, {"ignore_build_cache"}) : n \in Nodes}
    \cup {Call(Dir(Nodes), {"recursive"}, {"single_item"})}

Calls == PlainCalls \cup ModeCalls \cup ModeFlagCalls

\* The calls made with locked stages.
LockedCalls == {Call(File(n), {}, {}) : n \in Nodes}

\* The sets of locked stages.
LockedSets == {1..k : k \in 0..MaxNodes}

Init ==
    /\ G \in Graphs
    /\ \/ /\ locked = [n \in Nodes |-> FALSE]
          /\ args \in Calls
       \/ /\ locked \in {[n \in Nodes |-> n \in L] : L \in LockedSets}
          /\ args \in LockedCalls
    /\ pc = "start"
    /\ targets = <<>>
    /\ ti = 0
    /\ pipeline = <<>>
    /\ pi = 0
    /\ kwForce = FALSE
    /\ result = <<>>
    /\ ret = <<>>
    /\ stateHeld = FALSE
    /\ acquired = 0
    /\ err = NoErr
    /\ calls = <<>>
    /\ dumped = <<>>
    /\ warnings = <<>>
    /\ loads = 0
    /\ graphReads = 0
    /\ travs = <<>>
    /\ returned = None

(***************************************************************************)
(* reproduce, lines 44-77: the check of the arguments and the resolution   *)
(* of the starting points.                                                 *)
(***************************************************************************)

\* Lines 44-45
InvalidTarget ==
    /\ pc = "start"
    /\ NoTarget
    /\ err' = ValueError
    /\ pc' = "failed"
    /\ UNCHANGED <<G, locked, args, targets, ti, pipeline, pi, kwForce, result,
                   ret, stateHeld, acquired, calls, dumped, warnings, loads,
                   graphReads, travs, returned>>

\* Lines 56-61: recursive and the target is a directory.  os.path.isdir
\* raises for the target None.
ResolveRecursive ==
    /\ pc = "start"
    /\ ~NoTarget
    /\ args.recursive
    /\ args.target.kind # "file"
    /\ IF args.target = None
       THEN /\ err' = TypeError
            /\ pc' = "failed"
            /\ UNCHANGED <<targets, graphReads>>
       ELSE /\ targets' = DirTargets(G, args.target.nodes)
            /\ graphReads' = graphReads + 1
            /\ pc' = "enter"
            /\ UNCHANGED err
    /\ UNCHANGED <<G, locked, args, ti, pipeline, pi, kwForce, result, ret,
                   stateHeld, acquired, calls, dumped, warnings, loads, travs,
                   returned>>

\* Lines 62-73: pipeline or all_pipelines.
ResolvePipelines ==
    /\ pc = "start"
    /\ ~NoTarget
    /\ ~(args.recursive /\ args.target.kind # "file")
    /\ args.pipeline \/ args.all_pipelines
    /\ IF args.pipeline
       THEN /\ loads' = loads + 1
            /\ IF args.target.kind = "file"
               THEN /\ targets' = PipelineTargets(
                            G, <<get_pipeline(G, args.target.node)>>, 1)
                    /\ graphReads' = graphReads + 1
                    /\ pc' = "enter"
                    /\ UNCHANGED err
               ELSE /\ err' = NotFound
                    /\ pc' = "failed"
                    /\ UNCHANGED <<targets, graphReads>>
       ELSE /\ targets' = PipelineTargets(G, pipelines(G), 1)
            /\ graphReads' = graphReads + 1
            /\ pc' = "enter"
            /\ UNCHANGED <<err, loads>>
    /\ UNCHANGED <<G, locked, args, ti, pipeline, pi, kwForce, result, ret,
                   stateHeld, acquired, calls, dumped, warnings, travs,
                   returned>>

\* Lines 74-75
ResolveTarget ==
    /\ pc = "start"
    /\ ~NoTarget
    /\ ~(args.recursive /\ args.target.kind # "file")
    /\ ~(args.pipeline \/ args.all_pipelines)
    /\ targets' = <<args.target>>
    /\ pc' = "enter"
    /\ UNCHANGED <<G, locked, args, ti, pipeline, pi, kwForce, result, ret,
                   stateHeld, acquired, err, calls, dumped, warnings, loads,
                   graphReads, travs, returned>>

\* Lines 77-78: ret = [] and with self.state
EnterState ==
    /\ pc = "enter"
    /\ stateHeld' = TRUE
    /\ acquired' = acquired + 1
    /\ ret' = <<>>
    /\ ti' = 1
    /\ pc' = "loop"
    /\ UNCHANGED <<G, locked, args, targets, pipeline, pi, kwForce, result,
                   err, calls, dumped, warnings, loads, graphReads, travs,
                   returned>>

\* Lines 79-80 and 86-98: the next starting point; _reproduce loads its
\* stage, asks for the graph and sets the traversal up.
StartTraversal ==
    /\ pc = "loop"
    /\ ti <= Len(targets)
    /\ loads' = loads + 1
    /\ IF targets[ti].kind = "file"
       THEN /\ pipeline' = Pipeline(G, targets[ti].node)
            /\ graphReads' = graphReads + 1
            /\ pi' = 1
            /\ G' = GraphAfterPipeline(G)
            /\ kwForce' = InitialForce(kwForce)
            /\ result' = <<>>
            /\ calls' = <<>>
            /\ pc' = "reproduce"
            /\ UNCHANGED <<err, stateHeld>>
       ELSE /\ err' = NotFound
            /\ pc' = "failed"
            /\ stateHeld' = HeldAfterExit(NotFound)
            /\ UNCHANGED <<G, pipeline, pi, kwForce, result, calls,
                           graphReads>>
    /\ UNCHANGED <<locked, args, targets, ti, ret, acquired, dumped,
                   warnings, travs, returned>>

\* Lines 79, 78 and 83: no starting point is left; the with block is left
\* and reproduce returns ret.
Return ==
    /\ pc = "loop"
    /\ ti > Len(targets)
    /\ stateHeld' = HeldAfterExit(NoErr)
    /\ returned' = ret
    /\ pc' = "done"
    /\ UNCHANGED <<G, locked, args, targets, ti, pipeline, pi, kwForce, result,
                   ret, acquired, err, calls, dumped, warnings, loads,
                   graphReads, travs>>

(***************************************************************************)
(* _reproduce_stage for the node pipeline[pi], and the body of the loop of *)
(* _reproduce_stages around it.                                            *)
(***************************************************************************)

\* How many stage.reproduce calls of the run returned a stage.
Changed ==
    Len(ret) + Len(result) + (IF pc \in {"dump", "collect"} THEN 1 ELSE 0)

\* Lines 14-24: the warning and stage.reproduce, which returns nothing (and
\* then lines 160, 168 leave force and result alone), returns the stage, or
\* raises.
StageReproduce ==
    /\ pc = "reproduce"
    /\ pi <= Len(pipeline)
    /\ LET n == pipeline[pi] IN
       /\ warnings' = IF locked[n] THEN Append(warnings, n) ELSE warnings
       /\ IF ReproduceCalled(n)
          THEN \E out \in {"none", "stage", "raise"} :
            /\ calls' = Append(calls, [node |-> n, force |-> kwForce, out |-> out])
            /\ \/ /\ out = "none"
                  /\ pi' = pi + 1
                  /\ UNCHANGED <<pc, err, ti, stateHeld>>
               \/ /\ out = "stage"
                  /\ Changed < MaxChanged
                  /\ pc' = "dump"
                  /\ UNCHANGED <<pi, err, ti, stateHeld>>
               \/ /\ out = "raise"
                  /\ OnRaise(n, ReproduceFailed)
                  /\ UNCHANGED pi
          ELSE /\ pi' = pi + 1
               /\ UNCHANGED <<calls, pc, err, ti, stateHeld>>
    /\ UNCHANGED <<G, locked, args, targets, pipeline, kwForce, result, ret,
                   acquired, dumped, loads, graphReads, travs, returned>>

\* Lines 26-27: stage.dump unless dry; it may raise.
StageDump ==
    /\ pc = "dump"
    /\ LET n == pipeline[pi] IN
       IF ShouldDump
       THEN /\ dumped' = Append(dumped, n)
            /\ \/ /\ pc' = "collect"
                  /\ UNCHANGED <<err, ti, stateHeld>>
               \/ OnRaise(n, DumpFailed)
       ELSE /\ pc' = "collect"
            /\ UNCHANGED <<dumped, err, ti, stateHeld>>
    /\ UNCHANGED <<G, locked, args, targets, pipeline, pi, kwForce, result,
                   ret, acquired, calls, warnings, loads, graphReads, travs,
                   returned>>

\* Lines 29 and 160-168: the stage is returned; the cascade and the result.
Collect ==
    /\ pc = "collect"
    /\ kwForce' = Cascade(kwForce, TRUE)
    /\ result' = Extend(result, <<pipeline[pi]>>)
    /\ pi' = pi + 1
    /\ pc' = "reproduce"
    /\ UNCHANGED <<G, locked, args, targets, ti, pipeline, ret, stateHeld,
                   acquired, err, calls, dumped, warnings, loads, graphReads,
                   travs, returned>>

\* Lines 171, 100 and 81: the traversal returns its result, which reproduce
\* adds to ret.
EndTraversal ==
    /\ pc = "reproduce"
    /\ pi > Len(pipeline)
    /\ ret' = Extend(ret, result)
    /\ travs' = Append(travs, [start |-> targets[ti].node, calls |-> calls,
                               result |-> result])
    /\ result' = <<>>
    /\ calls' = <<>>
    /\ ti' = ti + 1
    /\ pc' = "loop"
    /\ UNCHANGED <<G, locked, args, targets, pipeline, pi, kwForce, stateHeld,
                   acquired, err, dumped, warnings, loads, graphReads,
                   returned>>

Next ==
    \/ InvalidTarget
    \/ ResolveRecursive
    \/ ResolvePipelines
    \/ ResolveTarget
    \/ EnterState
    \/ StartTraversal
    \/ Return
    \/ StageReproduce
    \/ StageDump
    \/ Collect
    \/ EndTraversal

Spec == Init /\ [][Next]_vars

(***************************************************************************)
(* Properties.                                                             *)
(***************************************************************************)

IsPrefix(s, t) == Len(s) <= Len(t) /\ \A i \in DOMAIN s : s[i] = t[i]

\* The nodes a sequence of stage.reproduce calls evaluated, in order.
NodesOf(cs) == [i \in DOMAIN cs |-> cs[i].node]

\* The nodes whose stage.reproduce call returned a stage, in order.
RECURSIVE ChangedOf(_)
ChangedOf(cs) ==
    IF cs = <<>> THEN <<>>
    ELSE (IF cs[1].out = "stage" THEN <<cs[1].node>> ELSE <<>>)
         \o ChangedOf(Tail(cs))

\* The stage.reproduce calls of the traversals that returned, in order.
RECURSIVE CallsOf(_)
CallsOf(ts) ==
    IF ts = <<>> THEN <<>> ELSE ts[1].calls \o CallsOf(Tail(ts))

\* The results of the traversals that returned, in order.
RECURSIVE ResultsOf(_)
ResultsOf(ts) ==
    IF ts = <<>> THEN <<>> ELSE ts[1].result \o ResultsOf(Tail(ts))

\* A traversal of _reproduce_stages is under way or has just raised.
InTraversal == pc \in {"reproduce", "dump", "collect"}

\* The loop of _reproduce_stages has run through its node sequence.
TraversalOver == pc = "reproduce" /\ pi > Len(pipeline)

\* C1: in forward mode every evaluated node is the starting node or one of
\* the nodes it depends on, no node is evaluated twice, a node is evaluated
\* only after all the nodes it depends on, and when the loop has run through
\* the evaluated nodes are exactly the starting node and all the nodes it
\* depends on, the starting node last.
C1_ForwardPostorder ==
    (InTraversal /\ ~args.single_item /\ ~args.downstream) =>
        LET s == targets[ti].node
            ev == NodesOf(calls)
            reach == {s} \cup Descendants(G, s)
        IN  /\ \A i \in DOMAIN ev : ev[i] \in reach
            /\ \A i, j \in DOMAIN ev : i # j => ev[i] # ev[j]
            /\ \A i \in DOMAIN ev :
                 \A d \in Descendants(G, ev[i]) :
                    \E j \in 1..(i - 1) : ev[j] = d
            /\ TraversalOver =>
                 /\ Range(ev) = reach
                 /\ ev[Len(ev)] = s

\* A forward traversal of a node with two dependencies, one of which the
\* other depends on too, has run through.
C1_Witness ==
    /\ TraversalOver /\ ~args.single_item /\ ~args.downstream
    /\ Len(calls) = 3
    /\ Len(G[targets[ti].node]) = 2
    /\ \E d \in Range(G[targets[ti].node]) : G[d] # <<>>

\* C2: in downstream mode the evaluated sequence starts with the starting
\* node, holds the starting node and its dependents only, all of them when
\* the loop has run through, and a node is evaluated before every evaluated
\* node that depends on it.
C2_DownstreamOrder ==
    (InTraversal /\ ~args.single_item /\ args.downstream) =>
        LET s == targets[ti].node
            ev == NodesOf(calls)
        IN  /\ ev # <<>> => ev[1] = s
            /\ \A i \in DOMAIN ev : ev[i] \in {s} \cup Ancestors(G, s)
            /\ TraversalOver => Range(ev) = {s} \cup Ancestors(G, s)
            /\ \A i, j \in DOMAIN ev :
                 ev[i] \in Descendants(G, ev[j]) => i < j

\* C3: the force option of every stage.reproduce call is true exactly when
\* the caller passed force or ignore_build_cache is set and an earlier call
\* of the same traversal returned a stage.
C3_ForceCascade ==
    \A i \in DOMAIN calls :
        calls[i].force =
            (args.force \/ (args.ignore_build_cache
                            /\ \E j \in 1..(i - 1) : calls[j].out = "stage"))

\* Under ignore_build_cache, without force, a call follows a call that
\* returned a stage.
C3_Witness ==
    /\ args.ignore_build_cache /\ ~args.force
    /\ Len(calls) >= 2
    /\ calls[1].out = "stage"
    /\ calls[2].force

\* C4: the step in which a node raises ends the traversal at that node,
\* once an exception is raised no stage is reproduced and the position in
\* the traversal does not move, and no step ever takes a dump back.
C4_FailureStops ==
    [][/\ (err = NoErr /\ err' # NoErr) => (pc' = "failed" /\ pi' = pi)
       /\ err # NoErr => (calls' = calls /\ pi' = pi /\ dumped' = dumped)
       /\ IsPrefix(dumped, dumped')]_vars

\* A traversal failed after a dump and before its last node.
C4_Witness ==
    /\ pc = "failed"
    /\ err.type = "ReproductionError"
    /\ dumped # <<>>
    /\ pi < Len(pipeline)

\* C5: an exception of stage.reproduce or stage.dump ends the run as a
\* ReproductionError with the path of the node and the exception as cause.
C5_FailureWrapped ==
    (pc = "failed" /\ err \notin {ValueError, TypeError, NotFound}) =>
        /\ err.type = "ReproductionError"
        /\ err.path = pipeline[pi]
        /\ err.cause \in {ReproduceFailed, DumpFailed}

\* C6 as stated: when a node raises, the traversal has a result, the nodes
\* that returned a stage before it, and the error has the path of the node.
C6_FailureResult ==
    (pc = "failed" /\ err.type = "ReproductionError") =>
        /\ Len(travs) = ti
        /\ travs[ti].result = ChangedOf(SubSeq(calls, 1, Len(calls) - 1))
        /\ err.path = pipeline[pi]

\* C6 amended: when a node raises, the error has the path of the node and
\* the result list of the traversal holds the nodes that returned a stage
\* before it, in order; the traversal returns nothing, so the list reaches
\* neither ret nor the caller.
C6_FailureResultLost ==
    (pc = "failed" /\ err.type = "ReproductionError") =>
        /\ err.path = pipeline[pi]
        /\ calls[Len(calls)].node = pipeline[pi]
        /\ result = ChangedOf(SubSeq(calls, 1, Len(calls) - 1))
        /\ Len(travs) = ti - 1
        /\ ret = ResultsOf(travs)
        /\ returned = None

\* A traversal failed after a node returned a stage.
C6_Witness ==
    /\ pc = "failed"
    /\ err.type = "ReproductionError"
    /\ result # <<>>
    /\ pi > 1

\* C7 as stated: a run that entered the loop over the starting points and
\* failed has attempted every starting point.
C7_OthersAttempted ==
    (pc = "failed" /\ acquired > 0) => ti >= Len(targets)

\* C7 amended: the step in which an exception is raised ends the run at
\* the starting point it had got to, and after it no starting point is
\* loaded or traversed.
C7_FailureEndsRun ==
    [][/\ (err = NoErr /\ err' # NoErr) =>
            (pc' = "failed" /\ ti' = ti /\ travs' = travs /\ ret' = ret)
       /\ err # NoErr =>
            /\ pc' = "failed"
            /\ ti' = ti /\ loads' = loads /\ graphReads' = graphReads
            /\ travs' = travs /\ calls' = calls /\ ret' = ret]_vars

\* A run with several starting points failed in a traversal that was not
\* the last.
C7_Witness ==
    /\ pc = "failed"
    /\ err.type = "ReproductionError"
    /\ ti < Len(targets)

\* C8: self.state is entered once at most, it is held whenever a starting
\* point is under way, and it is not held when the run is over; a run that
\* got to the loop entered it once.
C8_StateHeld ==
    /\ acquired <= 1
    /\ pc \in {"loop", "reproduce", "dump", "collect"} =>
         (stateHeld /\ acquired = 1)
    /\ pc \in {"done", "failed"} => ~stateHeld
    /\ pc = "done" => acquired = 1
    /\ pc \in {"start", "enter"} => (~stateHeld /\ acquired = 0)

\* A run failed in its second traversal, after a dump, and released the
\* state.
C8_Witness ==
    /\ pc = "failed"
    /\ acquired = 1
    /\ ~stateHeld
    /\ dumped # <<>>
    /\ ti = 2

\* C9: with dry nothing is dumped; without dry the dumps are the calls of
\* stage.reproduce that returned a stage, one for one and in order (the one
\* about to be dumped excepted), and every node appended to a result was
\* dumped before.
C9_DumpOnChange ==
    LET changed == ChangedOf(CallsOf(travs) \o calls)
        appended == ResultsOf(travs) \o result
    IN  /\ args.dry => dumped = <<>>
        /\ ~args.dry =>
             /\ dumped = IF pc = "dump"
                         THEN SubSeq(changed, 1, Len(changed) - 1)
                         ELSE changed
             /\ IsPrefix(appended, dumped)
             /\ pc = "collect" => Len(dumped) = Len(appended) + 1

\* Without dry, the second stage of a run is dumped and not yet appended.
C9_Witness ==
    /\ ~args.dry
    /\ pc = "collect"
    /\ Len(dumped) = 2
    /\ Len(ret) + Len(result) = 1

\* C10: a call without a target and without all_pipelines does nothing but
\* fail with ValueError: nothing is resolved or loaded, no graph is asked
\* for, self.state is not entered, no stage is reproduced or dumped.
C10_InvalidTarget ==
    (args.target = None /\ ~args.all_pipelines) =>
        /\ pc \in {"start", "failed"}
        /\ pc = "failed" => err = ValueError
        /\ pc = "start" => err = NoErr
        /\ targets = <<>> /\ loads = 0 /\ graphReads = 0
        /\ acquired = 0 /\ ~stateHeld
        /\ calls = <<>> /\ travs = <<>> /\ dumped = <<>> /\ warnings = <<>>
        /\ returned = None

\* A call for a pipeline without a target failed.
C10_Witness ==
    /\ pc = "failed"
    /\ err = ValueError
    /\ args.pipeline

\* Holds when P holds of the stage.reproduce calls of every traversal of
\* the run: the ones that returned and the running one.
EveryTraversal(P(_)) == P(calls) /\ \A k \in DOMAIN travs : P(travs[k].calls)

\* The run is past the resolution of its starting points.
Resolved == pc # "start" /\ ~(pc = "failed" /\ acquired = 0)

\* C11 as stated: the first node of a traversal is reproduced with force
\* equal to ignore_build_cache.
C11_FirstForceIsIgnoreBuildCache ==
    calls # <<>> => calls[1].force = args.ignore_build_cache

\* C11 amended: the force option of a traversal is initially the force
\* option of the caller: the first node of a traversal is reproduced with
\* force equal to the caller's force, whatever ignore_build_cache is.
C11_FirstForceIsCallerForce ==
    /\ (pc = "reproduce" /\ calls = <<>>) => kwForce = args.force
    /\ calls # <<>> => calls[1].force = args.force

\* Under ignore_build_cache, without force, the first node of a traversal
\* was reproduced without force.
C11_Witness ==
    /\ args.ignore_build_cache /\ ~args.force
    /\ pc = "reproduce"
    /\ Len(calls) = 1
    /\ ~calls[1].force

\* C12: in every traversal every call after a call with force has force,
\* and while a traversal is under way the force option is set once a call
\* was made with it.
C12_ForceMonotonic ==
    /\ EveryTraversal(LAMBDA cs :
         \A i, j \in DOMAIN cs : (i < j /\ cs[i].force) => cs[j].force)
    /\ (InTraversal /\ calls # <<>> /\ calls[Len(calls)].force) => kwForce

\* A traversal got its force from the cascade and kept it over a node that
\* returned nothing.
C12_Witness ==
    /\ Len(calls) = 3
    /\ ~calls[1].force
    /\ calls[2].force /\ calls[2].out = "none"
    /\ calls[3].force

\* The nodes joined to v by edges taken in either direction.
RECURSIVE Joined(_, _)
Joined(S, k) ==
    LET T == S \cup {u \in Nodes :
                       \E w \in S : u \in Range(G[w]) \/ w \in Range(G[u])}
    IN  IF k = 0 \/ T = S THEN S ELSE Joined(T, k - 1)

Connected(v) == Joined({v}, MaxNodes)

\* The nodes of S that no stage depends on.
Roots(S) == {v \in S : \A u \in Nodes : v \notin Range(G[u])}

\* The starting points are stage files, none of them twice.
Distinct(ts) == \A i, j \in DOMAIN ts : i # j => ts[i] # ts[j]

\* Every traversal that returned was the traversal of the starting point
\* of its rank, and a run that returned traversed every starting point.
OwnTraversals ==
    /\ Len(travs) <= Len(targets)
    /\ \A k \in DOMAIN travs : travs[k].start = targets[k].node
    /\ InTraversal => Len(travs) = ti - 1
    /\ pc = "done" => Len(travs) = Len(targets)

\* reproduce took the branch of lines 62-73.
PipelineBranch ==
    Resolved /\ ~(args.recursive /\ args.target.kind = "dir")
             /\ (args.pipeline \/ args.all_pipelines)

\* C13: the step that resolves the starting points of a call with pipeline
\* makes them exactly the nodes without dependents of the weakly-connected
\* component of the target, and of a call with all_pipelines alone exactly
\* the nodes without dependents of the graph, each once; no later step
\* changes them, and each starting point gets a traversal of its own.
C13_PipelineStartingPoints ==
    [][PipelineBranch' =>
         /\ IF pc = "start"
            THEN /\ Distinct(targets')
                 /\ args.pipeline =>
                      Range(targets') =
                         {File(v) : v \in Roots(Connected(args.target.node))}
                 /\ ~args.pipeline =>
                      Range(targets') = {File(v) : v \in Roots(Nodes)}
            ELSE targets' = targets
         /\ OwnTraversals']_vars

\* A pipeline call returned for a pipeline with two nodes without
\* dependents and a node that others depend on.
C13_Witness ==
    /\ pc = "done"
    /\ args.pipeline
    /\ Len(targets) = 2 /\ Len(travs) = 2
    /\ Cardinality(Connected(args.target.node)) = 3

\* C14: the step that resolves the starting points of a recursive call for
\* a directory makes them the stages of the directory, each once, a stage
\* after the stages of the directory it depends on; no later step changes
\* them, every starting point gets a traversal of its own, and the
\* traversal that returns has gone over the whole graph: forward it has
\* evaluated the starting point and all the stages it depends on, inside
\* the directory or not.
C14_RecursiveStartingPoints ==
    [][(Resolved' /\ args.recursive /\ args.target.kind = "dir") =>
         /\ IF pc = "start"
            THEN LET S == args.target.nodes
                     scoped == DirGraph(G, S)
                     ts == targets'
                 IN  /\ Distinct(ts)
                     /\ Range(ts) = {File(v) : v \in S}
                     /\ \A i, j \in DOMAIN ts :
                          ts[j].node \in Descendants(scoped, ts[i].node)
                             => j < i
            ELSE targets' = targets
         /\ OwnTraversals'
         /\ (pc = "reproduce" /\ pc' = "loop") =>
              LET s == targets[ti].node
                  ev == Range(NodesOf(calls))
              IN  /\ travs'[Len(travs')].calls = calls
                  /\ (~args.single_item /\ ~args.downstream) =>
                         ev = {s} \cup Descendants(G, s)
                  /\ (~args.single_item /\ args.downstream) =>
                         ev = {s} \cup Ancestors(G, s)]_vars

\* A recursive call returned for a directory of two stages, the first of
\* which depends on the second, and evaluated a stage outside the directory.
C14_Witness ==
    /\ pc = "done"
    /\ args.recursive /\ args.target.kind = "dir"
    /\ Len(targets) = 2
    /\ targets[1].node > targets[2].node
    /\ \E k \in DOMAIN travs :
         \E i \in DOMAIN travs[k].calls :
            travs[k].calls[i].node \notin args.target.nodes

\* C15: whatever stages are locked, stage.reproduce is called for the nodes
\* of the node sequence one after the other, none left out up to the node
\* the loop has got to, the result and the dumps are the nodes whose call
\* returned a stage, and locking shows in the warnings only: one for every
\* call for a locked stage.
C15_LockedStillReproduced ==
    /\ NodesOf(calls) = SubSeq(pipeline, 1, Len(calls))
    /\ pc = "reproduce" => Len(calls) = pi - 1
    /\ pc \in {"dump", "collect"} => Len(calls) = pi
    /\ warnings = SelectSeq(NodesOf(CallsOf(travs) \o calls),
                            LAMBDA n : locked[n])
    /\ pc = "reproduce" =>
         /\ result = ChangedOf(calls)
         /\ ~args.dry => dumped = ChangedOf(CallsOf(travs) \o calls)

\* A run with a locked stage and a stage that is not locked returned; the
\* locked stage was warned about, reproduced, dumped and returned.
C15_Witness ==
    /\ pc = "done"
    /\ \E n \in Nodes :
         /\ locked[n]
         /\ n \in Range(warnings) /\ n \in Range(dumped) /\ n \in Range(returned)
    /\ \E k \in DOMAIN travs :
         \E i \in DOMAIN travs[k].calls : ~locked[travs[k].calls[i].node]

\* C16: the result of every traversal is the nodes whose call returned a
\* stage, in the order of the calls; ret is the results of the traversals
\* one after the other, and it is what a run without failure returns; a
\* node whose calls all returned nothing is not in it.
C16_ResultIsChanged ==
    /\ \A k \in DOMAIN travs : travs[k].result = ChangedOf(travs[k].calls)
    /\ ret = ResultsOf(travs)
    /\ pc = "done" =>
         /\ returned = ChangedOf(CallsOf(travs))
         /\ \A n \in Range(returned) :
              \E k \in DOMAIN travs :
                 \E i \in DOMAIN travs[k].calls :
                    /\ travs[k].calls[i].node = n
                    /\ travs[k].calls[i].out = "stage"

\* A run of two traversals returned a stage of each, and a call of the
\* first returned nothing.
C16_Witness ==
    /\ pc = "done"
    /\ Len(travs) = 2
    /\ travs[1].result # <<>> /\ travs[2].result # <<>>
    /\ \E i \in DOMAIN travs[1].calls : travs[1].calls[i].out = "none"

\* C17: no traversal calls stage.reproduce for a node twice.
C17_NoRevisit ==
    EveryTraversal(LAMBDA cs :
        \A i, j \in DOMAIN cs : i # j => cs[i].node # cs[j].node)

\* A downstream traversal has run through three nodes: the starting node,
\* which two stages depend on, one of them on the other too.
C17_Witness ==
    /\ TraversalOver /\ ~args.single_item /\ args.downstream
    /\ Len(calls) = 3
    /\ \E u, w \in Nodes :
         /\ targets[ti].node \in Range(G[u])
         /\ targets[ti].node \in Range(G[w])
         /\ w \in Range(G[u])

\* C18: no step of a downstream run changes the graph: its nodes and its
\* edges stay as they are, and the forward node sequence from every node
\* is after the step what it was before.
C18_GraphUntouched ==
    [][args.downstream =>
         /\ G' = G
         /\ \A n \in Nodes :
              dfs_postorder_nodes(G', n) = dfs_postorder_nodes(G, n)]_vars

\* A downstream run returned after a traversal over an edge.
C18_Witness ==
    /\ pc = "done"
    /\ args.downstream /\ ~args.single_item
    /\ \E k \in DOMAIN travs : Len(travs[k].calls) >= 2

\* C19: the first call of every traversal of a run has the force option of
\* the caller, whatever the traversals before it did to theirs.
C19_ForceNotLeaked ==
    EveryTraversal(LAMBDA cs : cs # <<>> => cs[1].force = args.force)

\* Under ignore_build_cache, without force, a traversal returned a stage,
\* which set its force option, and the first call of the traversal after
\* it was made without force.
C19_Witness ==
    /\ args.ignore_build_cache /\ ~args.force /\ ~args.single_item
    /\ travs # <<>>
    /\ travs[Len(travs)].result # <<>>
    /\ calls # <<>>
    /\ ~calls[1].force

\* C20: a forward pipeline run that returned has evaluated every node of
\* the weakly-connected component of its target; with single_item every
\* traversal makes one call, for its starting node.
C20_PipelineCovered ==
    /\ (pc = "done" /\ PipelineBranch /\ args.pipeline
           /\ ~args.downstream /\ ~args.single_item) =>
         Connected(args.target.node) \subseteq Range(NodesOf(CallsOf(travs)))
    /\ args.single_item =>
         /\ \A k \in DOMAIN travs :
              NodesOf(travs[k].calls) = <<travs[k].start>>
         /\ (InTraversal /\ calls # <<>>) =>
              NodesOf(calls) = <<targets[ti].node>>

\* A forward pipeline run returned for a target that other stages depend
\* on, in a pipeline of three stages.
C20_Witness ==
    /\ pc = "done"
    /\ args.pipeline /\ ~args.downstream /\ ~args.single_item
    /\ Cardinality(Connected(args.target.node)) = 3
    /\ \A i \in DOMAIN targets : targets[i].node # args.target.node

====
